---- MODULE Spec2Model ----
(***************************************************************************)
(* Model of src/main.py: the Solana trading bot's security analyzer        *)
(* (blacklist gate, the two HTTP clients, the three rule groups), the      *)
(* Telegram command handlers that use it or update the trading policy,     *)
(* and the market monitoring loop.                                         *)
(*                                                                         *)
(* Conventions.  JSON/Python values are integers; a Python bool is the     *)
(* integer 1 or 0 (bool is an int subclass) and truthiness is "non zero".  *)
(* A dict is a function whose DOMAIN is the set of keys present.  A float   *)
(* parsed from command text is the pair <<n, d>> standing for n/d, d a     *)
(* power of ten, in lowest decimal form.  Text is a sequence of one        *)
(* character strings.                                                      *)
(***************************************************************************)
EXTENDS Integers, Sequences, FiniteSets, TLC

VARIABLES
    blacklist,        \* SecurityAnalyzer.blacklist
    security_config,  \* SecurityAnalyzer.config: the thresholds the rules read
    trading_config,   \* TradingBot.config['trading']
    watchlist,        \* TradingBot.watchlist
    reply,            \* the last update.message.reply_text of a handler
    handler_exc,      \* the exception that escaped the last handler, or "none"
    mon_pc,           \* position of monitor_markets
    mon_logged,       \* the except branch logged the error of this cycle
    eval_pc,          \* position of the is_token_safe call in flight
    pair_address,     \* its argument (0: no call yet)
    rug_status,       \* outcome kind of its Rugcheck request
    dex_status,       \* outcome kind of its DexScreener request
    rugcheck_data,    \* is_token_safe's local rugcheck_data
    dex_data,         \* is_token_safe's local dex_data
    checks,           \* the rule lists the validators built, per group
    eval_result,      \* what is_token_safe returned or raised
    policy_seen,      \* the policy values in force when each group was evaluated
    policy_at_call,   \* the policy values in force when the call was entered
    net_calls         \* HTTP requests the call issued

vars == <<blacklist, security_config, trading_config, watchlist, reply,
          handler_exc, mon_pc, mon_logged, eval_pc, pair_address, rug_status,
          dex_status, rugcheck_data, dex_data, checks, eval_result,
          policy_seen, policy_at_call, net_calls>>

eval_vars == <<eval_pc, pair_address, rug_status, dex_status, rugcheck_data,
               dex_data, checks, eval_result, policy_seen, policy_at_call,
               net_calls>>

mon_vars == <<mon_pc, mon_logged>>

(***************************************************************************)
(* Bounds of the model.                                                    *)
(***************************************************************************)
NumAddresses == 3
MaxArgs == 2

Addresses == 1..NumAddresses

(***************************************************************************)
(* Command text.                                                           *)
(***************************************************************************)
Digits == {"0", "1", "2", "3", "4", "5", "6", "7", "8", "9"}

DigitVal(c) ==
    CASE c = "0" -> 0 [] c = "1" -> 1 [] c = "2" -> 2 [] c = "3" -> 3
      [] c = "4" -> 4 [] c = "5" -> 5 [] c = "6" -> 6 [] c = "7" -> 7
      [] c = "8" -> 8 [] c = "9" -> 9

RECURSIVE DigitsValue(_)
DigitsValue(s) ==
    IF s = <<>> THEN 0
    ELSE DigitsValue(SubSeq(s, 1, Len(s) - 1)) * 10 + DigitVal(s[Len(s)])

RECURSIVE TenPow(_)
TenPow(k) == IF k = 0 THEN 1 ELSE 10 * TenPow(k - 1)

RECURSIVE LowestDecimal(_, _)
LowestDecimal(n, d) ==
    IF d > 1 /\ n % 10 = 0 THEN LowestDecimal(n \div 10, d \div 10)
    ELSE <<n, d>>

\* Python's float(text) on the decimal subset of its grammar: an optional
\* sign, then "nan", "inf", or digits with at most one point and at least
\* one digit.  Anything else raises ValueError.
float(s) ==
    LET signed == Len(s) > 0 /\ s[1] \in {"-", "+"}
        neg    == Len(s) > 0 /\ s[1] = "-"
        body   == IF signed THEN Tail(s) ELSE s
        dots   == {i \in 1..Len(body) : body[i] = "."}
        digs   == SelectSeq(body, LAMBDA c : c # ".")
        frac   == IF dots = {} THEN 0
                  ELSE Len(body) - (CHOOSE i \in dots : TRUE)
        mag    == DigitsValue(digs)
    IN  IF body = <<"n", "a", "n">> THEN [kind |-> "nan", v |-> <<0, 1>>]
        ELSE IF body = <<"i", "n", "f">>
             THEN [kind |-> "inf", v |-> <<IF neg THEN -1 ELSE 1, 1>>]
        ELSE IF /\ Cardinality(dots) <= 1
                /\ Len(digs) >= 1
                /\ \A i \in 1..Len(digs) : digs[i] \in Digits
             THEN [kind |-> "num",
                   v |-> LowestDecimal(IF neg THEN -mag ELSE mag, TenPow(frac))]
        ELSE [kind |-> "ValueError", v |-> <<0, 1>>]

(***************************************************************************)
(* Python and JSON values.                                                 *)
(***************************************************************************)
Bool(b) == IF b THEN 1 ELSE 0

Truthy(v) == v # 0

PyBool(b) == IF b THEN "True" ELSE "False"

RECURSIVE all(_)
all(list) == IF list = <<>> THEN TRUE ELSE Head(list) /\ all(Tail(list))

NoItems == [k \in {} |-> 0]

Dict(items) == [type |-> "dict", items |-> items]

EmptyDict == Dict(NoItems)

JsonArray == [type |-> "list", items |-> NoItems]

\* dict.get(key, default)
Get(data, key, default) ==
    IF key \in DOMAIN data.items THEN data.items[key] ELSE default

(***************************************************************************)
(* The configuration files and the payloads the two services answer with.  *)
(***************************************************************************)
DefaultRiskScore == 100

StrictPolicy ==
    [max_risk_score |-> 50, min_liquidity_lock |-> 50,
     min_distribution_score |-> 50, min_liquidity |-> 10,
     max_volume_ratio |-> 1, buy_sell_ratio |-> 1]

LaxPolicy ==
    [max_risk_score |-> 100, min_liquidity_lock |-> 0,
     min_distribution_score |-> 0, min_liquidity |-> 0,
     max_volume_ratio |-> 2, buy_sell_ratio |-> 0]

Policies == {StrictPolicy, LaxPolicy}

Blacklists ==
    { [tokens |-> t, developers |-> {}, malicious_patterns |-> {}] :
        t \in {{}, {1}, {1, 2}} }

RiskFields ==
    {"riskScore", "isMintable", "isFreezable", "liquidityLockScore",
     "holdersDistributionScore", "isProxy", "ownerBurn", "verified"}

GoodRisk ==
    [k \in RiskFields |->
        CASE k = "riskScore" -> 10
          [] k = "isMintable" -> 0
          [] k = "isFreezable" -> 0
          [] k = "liquidityLockScore" -> 80
          [] k = "holdersDistributionScore" -> 80
          [] k = "isProxy" -> 0
          [] k = "ownerBurn" -> 1
          [] k = "verified" -> 1]

RiskValues(k) ==
    IF k = "riskScore" THEN {10, 50, 100}
    ELSE IF k \in {"liquidityLockScore", "holdersDistributionScore"}
         THEN {0, 50, 80}
    ELSE {0, 1}

\* The risk payloads: the passing report, and each report that differs from
\* it in one field, absent or with another value.
RiskPayloads ==
    {Dict(GoodRisk)}
    \cup {Dict([k \in RiskFields \ {f} |-> GoodRisk[k]]) : f \in RiskFields}
    \cup UNION {{Dict([GoodRisk EXCEPT ![f] = v]) : v \in RiskValues(f)} :
                  f \in RiskFields}

MarketFields == {"usd", "h24", "buys", "sells"}

GoodMarket ==
    [k \in MarketFields |->
        CASE k = "usd" -> 50 [] k = "h24" -> 10 [] k = "buys" -> 3
          [] k = "sells" -> 2]

MarketValues(k) ==
    CASE k = "usd" -> {0, 10, 50}
      [] k = "h24" -> {10, 50, 100}
      [] k = "buys" -> {0, 2, 3}
      [] k = "sells" -> {0, 2, 3}

\* The pair payload DexScreener's JSON nests as liquidity.usd, volume.h24,
\* txns.h24.buys and txns.h24.sells, holding the fields m defines.
MarketJson(m) ==
    LET has(k) == k \in DOMAIN m
        liquidity == Dict([k \in {"usd"} \cap DOMAIN m |-> m[k]])
        volume == Dict([k \in {"h24"} \cap DOMAIN m |-> m[k]])
        h24 == Dict([k \in {"buys", "sells"} \cap DOMAIN m |-> m[k]])
        txns == Dict([k \in {"h24"} |-> h24])
        keys == {k \in {"liquidity", "volume", "txns"} :
                    \/ k = "liquidity" /\ has("usd")
                    \/ k = "volume" /\ has("h24")
                    \/ k = "txns" /\ (has("buys") \/ has("sells"))}
    IN  Dict([k \in keys |->
                CASE k = "liquidity" -> liquidity
                  [] k = "volume" -> volume
                  [] k = "txns" -> txns])

MarketPayloads ==
    {MarketJson(GoodMarket)}
    \cup {MarketJson([k \in MarketFields \ {f} |-> GoodMarket[k]]) :
            f \in MarketFields}
    \cup UNION {{MarketJson([GoodMarket EXCEPT ![f] = v]) :
                    v \in MarketValues(f)} : f \in MarketFields}

ErrorJson == Dict([k \in {"error"} |-> 404])

\* What one HTTP exchange can end in.  "ok": a 2xx answer with a JSON
\* object; "non_2xx": an error status with a JSON body; "not_object": valid
\* JSON that is no object; "invalid_json": response.json() raises;
\* "timeout" and "transport_error": session.get raises.
Responses(payloads, good) ==
    {[kind |-> "ok", body |-> b] : b \in payloads}
    \cup {[kind |-> "non_2xx", body |-> b] : b \in {ErrorJson, good}}
    \cup {[kind |-> "not_object", body |-> JsonArray]}
    \cup {[kind |-> k, body |-> EmptyDict] :
            k \in {"invalid_json", "timeout", "transport_error"}}

RugcheckResponses == Responses(RiskPayloads, Dict(GoodRisk))

DexScreenerResponses == Responses(MarketPayloads, MarketJson(GoodMarket))

Raises(response) ==
    response.kind \in {"invalid_json", "timeout", "transport_error"}

(***************************************************************************)
(* DexScreenerAPI and RugCheckAPI.                                         *)
(***************************************************************************)
get_pair_details(response) ==
    IF Raises(response) THEN EmptyDict ELSE response.body

get_token_score(response) ==
    IF Raises(response) THEN EmptyDict ELSE response.body

(***************************************************************************)
(* SecurityAnalyzer.                                                       *)
(***************************************************************************)
\* The class defines neither _get_associated_devs nor _detect_patterns:
\* looking either up on self raises AttributeError.
_get_associated_devs(address) == "AttributeError"

_detect_patterns(address) == "AttributeError"

\* any([...]) over a list built eagerly: the three elements are evaluated
\* in order before any() runs, so an element that raises ends the call.
_is_blacklisted(address) ==
    LET in_tokens == address \in blacklist.tokens
        devs == _get_associated_devs(address)
        patterns == _detect_patterns(address)
    IN  IF devs = "AttributeError" THEN "AttributeError"
        ELSE IF patterns = "AttributeError" THEN "AttributeError"
        ELSE PyBool(\/ in_tokens
                    \/ devs \cap blacklist.developers # {}
                    \/ patterns \cap blacklist.malicious_patterns # {})

rugcheck_rules(data) ==
    << Get(data, "riskScore", DefaultRiskScore) < security_config.max_risk_score,
       ~Truthy(Get(data, "isMintable", Bool(TRUE))),
       ~Truthy(Get(data, "isFreezable", Bool(TRUE))),
       Get(data, "liquidityLockScore", 0) > security_config.min_liquidity_lock,
       Get(data, "holdersDistributionScore", 0)
           > security_config.min_distribution_score >>

\* volume / liquidity < max_volume_ratio is compared without dividing:
\* for liquidity > 0 it is volume < max_volume_ratio * liquidity.
dexscreener_rules(data) ==
    LET liquidity == Get(Get(data, "liquidity", EmptyDict), "usd", 0)
        volume == Get(Get(data, "volume", EmptyDict), "h24", 0)
        h24 == Get(Get(data, "txns", EmptyDict), "h24", EmptyDict)
    IN  << liquidity > security_config.min_liquidity,
           IF liquidity > 0
           THEN volume < security_config.max_volume_ratio * liquidity
           ELSE 0 < security_config.max_volume_ratio,
           Get(h24, "buys", 0)
               > Get(h24, "sells", 0) * security_config.buy_sell_ratio >>

contract_rules(data) ==
    << ~Truthy(Get(data, "isProxy", Bool(FALSE))),
       Truthy(Get(data, "ownerBurn", Bool(FALSE))),
       Truthy(Get(data, "verified", Bool(FALSE))) >>

\* A validator called on a value that is no dict raises AttributeError at
\* its first data.get.
_validate_rugcheck(data) ==
    IF data.type # "dict" THEN "AttributeError"
    ELSE PyBool(all(rugcheck_rules(data)))

_validate_dexscreener(data) ==
    IF data.type # "dict" THEN "AttributeError"
    ELSE PyBool(all(dexscreener_rules(data)))

_validate_contract_properties(data) ==
    IF data.type # "dict" THEN "AttributeError"
    ELSE PyBool(all(contract_rules(data)))

\* The values a policy update or a rule can read at this moment.
Policy == [security |-> security_config, trading |-> trading_config]

NoChecks == [rugcheck |-> <<>>, dexscreener |-> <<>>, contract |-> <<>>]

\* As SuspendPoints, with an await placed between two rule groups.
SuspendPointsBetweenRules ==
    {"await_rugcheck", "await_dexscreener", "validate_dexscreener"}

\* The positions at which the coroutine running is_token_safe is suspended
\* and the event loop may run another handler.
SuspendPoints == {"await_rugcheck", "await_dexscreener"}

NoCoroutineRunning == eval_pc \in SuspendPoints \cup {"idle", "done"}

\* is_token_safe from its first await on (line 88): the request to
\* Rugcheck is issued and the coroutine is suspended.
is_token_safe_fetch(address) ==
    /\ pair_address' = address
    /\ policy_at_call' = Policy
    /\ policy_seen' = <<>>
    /\ checks' = NoChecks
    /\ rugcheck_data' = EmptyDict
    /\ dex_data' = EmptyDict
    /\ rug_status' = "none"
    /\ dex_status' = "none"
    /\ eval_pc' = "await_rugcheck"
    /\ eval_result' = "pending"
    /\ net_calls' = 1

\* is_token_safe up to its first await: the blacklist gate, which returns
\* False for a listed address and lets an exception of the gate escape.
is_token_safe_enter(address) ==
    LET listed == _is_blacklisted(address)
    IN  IF listed = "False" THEN is_token_safe_fetch(address)
        ELSE /\ pair_address' = address
             /\ policy_at_call' = Policy
             /\ policy_seen' = <<>>
             /\ checks' = NoChecks
             /\ rugcheck_data' = EmptyDict
             /\ dex_data' = EmptyDict
             /\ rug_status' = "none"
             /\ dex_status' = "none"
             /\ eval_pc' = "done"
             /\ eval_result' = IF listed = "True" THEN "False" ELSE listed
             /\ net_calls' = 0

(***************************************************************************)
(* TradingBot: the command handlers.                                       *)
(***************************************************************************)
StopLossMin == -100

TakeProfitMax == 1000

NoReply == [kind |-> "none", arg |-> <<0, 1>>]

Text(kind, arg) == [kind |-> kind, arg |-> arg]

\* As watch_finish, adding the address whatever is_token_safe answered.
watch_finish_ungated(address, safe) ==
    /\ watchlist' = watchlist \cup {address}
    /\ reply' = Text("added", <<address, 1>>)
    /\ handler_exc' = "none"

\* _cmd_watch after is_token_safe has returned or raised.
watch_finish(address, safe) ==
    CASE safe = "True" ->
            /\ watchlist' = watchlist \cup {address}
            /\ reply' = Text("added", <<address, 1>>)
            /\ handler_exc' = "none"
      [] safe = "False" ->
            /\ reply' = Text("failed_security_checks", <<0, 1>>)
            /\ handler_exc' = "none"
            /\ UNCHANGED watchlist
      [] OTHER ->
            /\ handler_exc' = safe
            /\ UNCHANGED <<watchlist, reply>>

_cmd_watch(args) ==
    IF Len(args) # 1
    THEN /\ reply' = Text("usage_watch", <<0, 1>>)
         /\ handler_exc' = "none"
         /\ UNCHANGED <<watchlist, eval_vars>>
    ELSE /\ is_token_safe_enter(args[1])
         /\ IF eval_result' = "pending"
            THEN UNCHANGED <<watchlist, reply, handler_exc>>
            ELSE watch_finish(args[1], eval_result')

_cmd_unwatch(args) ==
    /\ handler_exc' = "none"
    /\ IF Len(args) # 1
       THEN /\ reply' = Text("usage_unwatch", <<0, 1>>)
            /\ UNCHANGED watchlist
       ELSE IF args[1] \in watchlist
       THEN /\ watchlist' = watchlist \ {args[1]}
            /\ reply' = Text("removed", <<args[1], 1>>)
       ELSE /\ reply' = Text("not_in_watchlist", <<0, 1>>)
            /\ UNCHANGED watchlist

\* As stop_loss_in_range, with the bounds included.
stop_loss_in_closed_range(x) ==
    x.kind = "num" /\ StopLossMin * x.v[2] <= x.v[1] /\ x.v[1] <= 0

\* -100 < new_sl < 0; a comparison with nan or with an infinity on the
\* wrong side is false.
stop_loss_in_range(x) ==
    x.kind = "num" /\ StopLossMin * x.v[2] < x.v[1] /\ x.v[1] < 0

\* 0 < new_tp < 1000
take_profit_in_range(x) ==
    x.kind = "num" /\ 0 < x.v[1] /\ x.v[1] < TakeProfitMax * x.v[2]

_cmd_stop_loss(args) ==
    /\ handler_exc' = "none"
    /\ IF Len(args) # 1
       THEN /\ reply' = Text("usage_stop_loss", <<0, 1>>)
            /\ UNCHANGED trading_config
       ELSE LET new_sl == float(args[1])
            IN  IF new_sl.kind = "ValueError" \/ ~stop_loss_in_range(new_sl)
                THEN /\ reply' = Text("invalid_stop_loss", <<0, 1>>)
                     /\ UNCHANGED trading_config
                ELSE /\ trading_config' =
                            [trading_config EXCEPT !.stop_loss = new_sl.v]
                     /\ reply' = Text("stop_loss_updated", new_sl.v)

_cmd_take_profit(args) ==
    /\ handler_exc' = "none"
    /\ IF Len(args) # 1
       THEN /\ reply' = Text("usage_take_profit", <<0, 1>>)
            /\ UNCHANGED trading_config
       ELSE LET new_tp == float(args[1])
            IN  IF new_tp.kind = "ValueError" \/ ~take_profit_in_range(new_tp)
                THEN /\ reply' = Text("invalid_take_profit", <<0, 1>>)
                     /\ UNCHANGED trading_config
                ELSE /\ trading_config' =
                            [trading_config EXCEPT !.take_profit = new_tp.v]
                     /\ reply' = Text("take_profit_updated", new_tp.v)

\* The texts a percentage command is sent with.
NumberTexts ==
    { <<"-", "5", "0">>, <<"-", "5", "0", ".", "0">>, <<"-", "1", "0", "0">>,
      <<"0">>, <<"-", "0", ".", "5">>, <<"5", "0">>, <<"+", "5", "0">>,
      <<"1", "0", "0", "0">>, <<"9", "9", "9", ".", "9">>,
      <<"a", "b", "c">>, <<"n", "a", "n">>, <<"-", "i", "n", "f">>,
      <<"1", ".", "5", ".", "2">>, <<"-">> }

\* context.args: no word, one word, or from two to MaxArgs words (a
\* handler looks only at the count of a list that is not one word long).
ArgLists(words) ==
    {<<>>} \cup {<<w>> : w \in words}
    \cup {[i \in 1..n |-> CHOOSE w \in words : TRUE] : n \in 2..MaxArgs}

CmdWatch ==
    /\ NoCoroutineRunning
    /\ \E args \in ArgLists(Addresses) : _cmd_watch(args)
    /\ UNCHANGED <<blacklist, security_config, trading_config, mon_vars>>

CmdUnwatch ==
    /\ NoCoroutineRunning
    /\ \E args \in ArgLists(Addresses) : _cmd_unwatch(args)
    /\ UNCHANGED <<blacklist, security_config, trading_config, mon_vars,
                   eval_vars>>

CmdStopLoss ==
    /\ NoCoroutineRunning
    /\ \E args \in ArgLists(NumberTexts) : _cmd_stop_loss(args)
    /\ UNCHANGED <<blacklist, security_config, watchlist, mon_vars, eval_vars>>

CmdTakeProfit ==
    /\ NoCoroutineRunning
    /\ \E args \in ArgLists(NumberTexts) : _cmd_take_profit(args)
    /\ UNCHANGED <<blacklist, security_config, watchlist, mon_vars, eval_vars>>

(***************************************************************************)
(* TradingBot.monitor_markets.                                             *)
(***************************************************************************)
\* As MonitorCycle, without the except branch: the exception ends the task.
MonitorCycleUncaught ==
    /\ NoCoroutineRunning
    /\ mon_pc = "try"
    /\ \E raised \in BOOLEAN :
          IF raised
          THEN mon_pc' = "terminated" /\ mon_logged' = FALSE
          ELSE mon_pc' = "sleep_polling" /\ mon_logged' = FALSE
    /\ UNCHANGED <<blacklist, security_config, trading_config, watchlist,
                   reply, handler_exc, eval_vars>>

\* One pass of the try body up to its await: it either raises an
\* Exception, which the except branch logs before sleeping 60 s, or
\* reaches the polling sleep.
MonitorCycle ==
    /\ NoCoroutineRunning
    /\ mon_pc = "try"
    /\ \E raised \in BOOLEAN :
          IF raised
          THEN mon_pc' = "sleep_after_error" /\ mon_logged' = TRUE
          ELSE mon_pc' = "sleep_polling" /\ mon_logged' = FALSE
    /\ UNCHANGED <<blacklist, security_config, trading_config, watchlist,
                   reply, handler_exc, eval_vars>>

\* The sleep ends and the while loop starts the next cycle.
MonitorWake ==
    /\ NoCoroutineRunning
    /\ mon_pc \in {"sleep_polling", "sleep_after_error"}
    /\ mon_pc' = "try"
    /\ mon_logged' = FALSE
    /\ UNCHANGED <<blacklist, security_config, trading_config, watchlist,
                   reply, handler_exc, eval_vars>>

(***************************************************************************)
(* The bot as constructed and run.                                         *)
(***************************************************************************)
TradingConfigs == {[stop_loss |-> <<-10, 1>>, take_profit |-> <<20, 1>>]}

Init ==
    /\ blacklist \in Blacklists
    /\ security_config = StrictPolicy
    /\ trading_config \in TradingConfigs
    /\ watchlist = {}
    /\ reply = NoReply
    /\ handler_exc = "none"
    /\ mon_pc = "try"
    /\ mon_logged = FALSE
    /\ eval_pc = "idle"
    /\ pair_address = 0
    /\ rug_status = "none"
    /\ dex_status = "none"
    /\ rugcheck_data = EmptyDict
    /\ dex_data = EmptyDict
    /\ checks = NoChecks
    /\ eval_result = "pending"
    /\ policy_seen = <<>>
    /\ policy_at_call = Policy
    /\ net_calls = 0

Next ==
    \/ CmdWatch
    \/ CmdUnwatch
    \/ CmdStopLoss
    \/ CmdTakeProfit
    \/ MonitorCycle
    \/ MonitorWake

Spec == Init /\ [][Next]_vars

\* The event loop resumes a task whose sleep has ended and runs a task that
\* is ready.
LiveSpec == Spec /\ WF_vars(MonitorCycle) /\ WF_vars(MonitorWake)

(***************************************************************************)
(* is_token_safe from line 88 on, step by step.  The steps between two     *)
(* awaits run without the event loop taking over: another handler runs     *)
(* only while eval_pc is a suspend point.  EvalInit and EnterFetch put the *)
(* /watch handler at line 88 with an address the token list does not hold. *)
(***************************************************************************)
EnterFetch ==
    /\ eval_pc \in {"idle", "done"}
    /\ \E address \in Addresses \ blacklist.tokens :
          is_token_safe_fetch(address)
    /\ UNCHANGED <<blacklist, security_config, trading_config, watchlist,
                   reply, handler_exc, mon_vars>>

\* await self.rugcheck.get_token_score(...) returns; the DexScreener
\* request is issued.
RugcheckReturns ==
    /\ eval_pc = "await_rugcheck"
    /\ \E response \in RugcheckResponses :
          /\ rugcheck_data' = get_token_score(response)
          /\ rug_status' = response.kind
    /\ eval_pc' = "await_dexscreener"
    /\ net_calls' = net_calls + 1
    /\ UNCHANGED <<blacklist, security_config, trading_config, watchlist,
                   reply, handler_exc, mon_vars, pair_address, dex_status,
                   dex_data, checks, eval_result, policy_seen, policy_at_call>>

\* await self.dex_screener.get_pair_details(...) returns.
DexscreenerReturns ==
    /\ eval_pc = "await_dexscreener"
    /\ \E response \in DexScreenerResponses :
          /\ dex_data' = get_pair_details(response)
          /\ dex_status' = response.kind
    /\ eval_pc' = "validate_rugcheck"
    /\ UNCHANGED <<blacklist, security_config, trading_config, watchlist,
                   reply, handler_exc, mon_vars, pair_address, rug_status,
                   rugcheck_data, checks, eval_result, policy_seen,
                   policy_at_call, net_calls>>

\* A validator raised: the exception leaves is_token_safe and _cmd_watch.
eval_raise(exc) ==
    /\ eval_pc' = "done"
    /\ eval_result' = exc
    /\ watch_finish(pair_address, exc)
    /\ UNCHANGED checks

\* First element of the list in lines 92-96.
ValidateRugcheck ==
    /\ eval_pc = "validate_rugcheck"
    /\ policy_seen' = Append(policy_seen, Policy)
    /\ IF _validate_rugcheck(rugcheck_data) = "AttributeError"
       THEN eval_raise("AttributeError")
       ELSE /\ checks' = [checks EXCEPT !.rugcheck = rugcheck_rules(rugcheck_data)]
            /\ eval_pc' = "validate_dexscreener"
            /\ UNCHANGED <<eval_result, watchlist, reply, handler_exc>>
    /\ UNCHANGED <<blacklist, security_config, trading_config, mon_vars,
                   pair_address, rug_status, dex_status, rugcheck_data,
                   dex_data, policy_at_call, net_calls>>

\* Second element.
ValidateDexscreener ==
    /\ eval_pc = "validate_dexscreener"
    /\ policy_seen' = Append(policy_seen, Policy)
    /\ IF _validate_dexscreener(dex_data) = "AttributeError"
       THEN eval_raise("AttributeError")
       ELSE /\ checks' = [checks EXCEPT !.dexscreener = dexscreener_rules(dex_data)]
            /\ eval_pc' = "validate_contract"
            /\ UNCHANGED <<eval_result, watchlist, reply, handler_exc>>
    /\ UNCHANGED <<blacklist, security_config, trading_config, mon_vars,
                   pair_address, rug_status, dex_status, rugcheck_data,
                   dex_data, policy_at_call, net_calls>>

\* Third element, then all([...]) and the rest of _cmd_watch.
ValidateContract ==
    /\ eval_pc = "validate_contract"
    /\ policy_seen' = Append(policy_seen, Policy)
    /\ LET safe == PyBool(all(<< _validate_rugcheck(rugcheck_data) = "True",
                                 _validate_dexscreener(dex_data) = "True",
                                 _validate_contract_properties(rugcheck_data)
                                     = "True" >>))
       IN  /\ checks' = [checks EXCEPT !.contract = contract_rules(rugcheck_data)]
           /\ eval_pc' = "done"
           /\ eval_result' = safe
           /\ watch_finish(pair_address, safe)
    /\ UNCHANGED <<blacklist, security_config, trading_config, mon_vars,
                   pair_address, rug_status, dex_status, rugcheck_data,
                   dex_data, policy_at_call, net_calls>>

\* The percentage texts sent while an evaluation is in flight.
EvalTexts == {<<"-", "5", "0">>, <<"5", "0">>}

EvalStopLoss ==
    /\ NoCoroutineRunning
    /\ \E text \in EvalTexts : _cmd_stop_loss(<<text>>)
    /\ UNCHANGED <<blacklist, security_config, watchlist, mon_vars, eval_vars>>

EvalTakeProfit ==
    /\ NoCoroutineRunning
    /\ \E text \in EvalTexts : _cmd_take_profit(<<text>>)
    /\ UNCHANGED <<blacklist, security_config, watchlist, mon_vars, eval_vars>>

EvalInit ==
    /\ blacklist = [tokens |-> {1, 2}, developers |-> {},
                    malicious_patterns |-> {}]
    /\ security_config \in Policies
    /\ trading_config \in TradingConfigs
    /\ watchlist = {}
    /\ reply = NoReply
    /\ handler_exc = "none"
    /\ mon_pc = "try"
    /\ mon_logged = FALSE
    /\ eval_pc = "idle"
    /\ pair_address = 0
    /\ rug_status = "none"
    /\ dex_status = "none"
    /\ rugcheck_data = EmptyDict
    /\ dex_data = EmptyDict
    /\ checks = NoChecks
    /\ eval_result = "pending"
    /\ policy_seen = <<>>
    /\ policy_at_call = Policy
    /\ net_calls = 0

EvalNext ==
    \/ EnterFetch
    \/ RugcheckReturns
    \/ DexscreenerReturns
    \/ ValidateRugcheck
    \/ ValidateDexscreener
    \/ ValidateContract
    \/ EvalStopLoss
    \/ EvalTakeProfit

SpecEval == EvalInit /\ [][EvalNext]_vars

(***************************************************************************)
(* Properties.                                                             *)
(***************************************************************************)
Returned == eval_pc = "done" /\ eval_result \in {"True", "False"}

\* The rule a risk field is checked by, as the validators recorded it.
RuleOf(field) ==
    CASE field = "riskScore" -> checks.rugcheck[1]
      [] field = "isMintable" -> checks.rugcheck[2]
      [] field = "isFreezable" -> checks.rugcheck[3]
      [] field = "liquidityLockScore" -> checks.rugcheck[4]
      [] field = "holdersDistributionScore" -> checks.rugcheck[5]
      [] field = "isProxy" -> checks.contract[1]
      [] field = "ownerBurn" -> checks.contract[2]
      [] field = "verified" -> checks.contract[3]

\* C1: when is_token_safe has returned on a risk report that lacks a field
\* of rule groups A or C, the rule of that field has failed and the token
\* is not admitted.
MissingFieldFailsClosed ==
    (Returned /\ rugcheck_data.type = "dict") =>
        \A f \in RiskFields \ DOMAIN rugcheck_data.items :
            ~RuleOf(f) /\ eval_result = "False"

\* C1, for the seven fields other than isProxy.
MissingFieldFailsClosedButProxy ==
    (Returned /\ rugcheck_data.type = "dict") =>
        \A f \in (RiskFields \ {"isProxy"}) \ DOMAIN rugcheck_data.items :
            ~RuleOf(f) /\ eval_result = "False"

\* C2: a call of is_token_safe on an address of the blacklisted-token set
\* has returned rejected and has issued no request.
BlacklistedRejectedWithoutFetch ==
    (eval_pc = "done" /\ pair_address \in blacklist.tokens) =>
        (eval_result = "False" /\ net_calls = 0)

\* C3: when either fetch resolved to the empty report, is_token_safe has
\* returned rejected, whatever the other fetch resolved to.
OutageRejects ==
    (eval_pc = "done" /\ (rugcheck_data = EmptyDict \/ dex_data = EmptyDict))
        => eval_result = "False"

\* C3, restricted to fetches that both resolved to JSON objects.
OutageRejectsObjects ==
    (/\ eval_pc = "done"
     /\ rugcheck_data.type = "dict" /\ dex_data.type = "dict"
     /\ (rugcheck_data = EmptyDict \/ dex_data = EmptyDict))
        => eval_result = "False"

FailureKinds ==
    {"transport_error", "timeout", "non_2xx", "invalid_json", "not_object"}

\* C4: a request that ended in a transport failure, a timeout, a non-2xx
\* status or a malformed payload resolved to the empty report, and no
\* exception arose in is_token_safe.
ClientsFailClosed ==
    /\ rug_status \in FailureKinds => rugcheck_data = EmptyDict
    /\ dex_status \in FailureKinds => dex_data = EmptyDict
    /\ eval_result # "AttributeError"

\* The rule tables of groups A, B and C: a field of A or C passes its rule
\* only when present; a market field that is absent counts as 0, and the
\* ratio rule uses ratio 0 when the liquidity is 0.
TableRulesPass(risk, market, policy) ==
    LET has(f) == f \in DOMAIN risk.items
        val(f) == risk.items[f]
        liquidity == Get(Get(market, "liquidity", EmptyDict), "usd", 0)
        volume == Get(Get(market, "volume", EmptyDict), "h24", 0)
        h24 == Get(Get(market, "txns", EmptyDict), "h24", EmptyDict)
        buys == Get(h24, "buys", 0)
        sells == Get(h24, "sells", 0)
    IN  /\ has("riskScore") /\ val("riskScore") < policy.max_risk_score
        /\ has("isMintable") /\ val("isMintable") = 0
        /\ has("isFreezable") /\ val("isFreezable") = 0
        /\ has("liquidityLockScore")
        /\ val("liquidityLockScore") > policy.min_liquidity_lock
        /\ has("holdersDistributionScore")
        /\ val("holdersDistributionScore") > policy.min_distribution_score
        /\ liquidity > policy.min_liquidity
        /\ \/ liquidity = 0 /\ 0 < policy.max_volume_ratio
           \/ liquidity > 0 /\ volume < policy.max_volume_ratio * liquidity
        /\ buys > sells * policy.buy_sell_ratio
        /\ has("isProxy") /\ val("isProxy") = 0
        /\ has("ownerBurn") /\ val("ownerBurn") = 1
        /\ has("verified") /\ val("verified") = 1

\* C5: is_token_safe has admitted the token exactly when every rule of
\* groups A, B and C passes, with strict inequalities, and it has raised
\* no error.
AdmitsIffAllRulesPass ==
    (eval_pc = "done" /\ rugcheck_data.type = "dict" /\ dex_data.type = "dict")
        => /\ eval_result \in {"True", "False"}
           /\ eval_result = "True"
                <=> TableRulesPass(rugcheck_data, dex_data, security_config)

\* C5, restricted to risk reports that hold the key isProxy.
AdmitsIffAllRulesPassWithProxy ==
    (/\ eval_pc = "done"
     /\ rugcheck_data.type = "dict" /\ dex_data.type = "dict"
     /\ "isProxy" \in DOMAIN rugcheck_data.items)
        => /\ eval_result \in {"True", "False"}
           /\ eval_result = "True"
                <=> TableRulesPass(rugcheck_data, dex_data, security_config)

\* C6: the blacklist check never raises: every call of is_token_safe gets
\* past it to a verdict and no exception escapes the handler.
BlacklistCheckTotal ==
    eval_result \in {"pending", "True", "False"} /\ handler_exc = "none"

\* What each percentage text denotes: whether it is a number, and that
\* number in tenths.
Denotes(text) ==
    CASE text = <<"-", "5", "0">> -> [numeric |-> TRUE, tenths |-> -500]
      [] text = <<"-", "5", "0", ".", "0">> -> [numeric |-> TRUE, tenths |-> -500]
      [] text = <<"-", "1", "0", "0">> -> [numeric |-> TRUE, tenths |-> -1000]
      [] text = <<"0">> -> [numeric |-> TRUE, tenths |-> 0]
      [] text = <<"-", "0", ".", "5">> -> [numeric |-> TRUE, tenths |-> -5]
      [] text = <<"5", "0">> -> [numeric |-> TRUE, tenths |-> 500]
      [] text = <<"+", "5", "0">> -> [numeric |-> TRUE, tenths |-> 500]
      [] text = <<"1", "0", "0", "0">> -> [numeric |-> TRUE, tenths |-> 10000]
      [] text = <<"9", "9", "9", ".", "9">> -> [numeric |-> TRUE, tenths |-> 9999]
      [] OTHER -> [numeric |-> FALSE, tenths |-> 0]

IsTenths(value, tenths) == value[1] * 10 = tenths * value[2]

StopLossAsClaimed(args) ==
    IF /\ Len(args) = 1
       /\ Denotes(args[1]).numeric
       /\ -1000 < Denotes(args[1]).tenths
       /\ Denotes(args[1]).tenths < 0
    THEN /\ IsTenths(trading_config'.stop_loss, Denotes(args[1]).tenths)
         /\ trading_config'.take_profit = trading_config.take_profit
         /\ reply'.kind = "stop_loss_updated"
    ELSE /\ trading_config' = trading_config
         /\ reply'.kind \in {"usage_stop_loss", "invalid_stop_loss"}

TakeProfitAsClaimed(args) ==
    IF /\ Len(args) = 1
       /\ Denotes(args[1]).numeric
       /\ 0 < Denotes(args[1]).tenths
       /\ Denotes(args[1]).tenths < 10000
    THEN /\ IsTenths(trading_config'.take_profit, Denotes(args[1]).tenths)
         /\ trading_config'.stop_loss = trading_config.stop_loss
         /\ reply'.kind = "take_profit_updated"
    ELSE /\ trading_config' = trading_config
         /\ reply'.kind \in {"usage_take_profit", "invalid_take_profit"}

PolicyReplies ==
    {"usage_stop_loss", "invalid_stop_loss", "stop_loss_updated",
     "usage_take_profit", "invalid_take_profit", "take_profit_updated"}

\* C7: /stop_loss sets trading.stop_loss to its argument exactly when the
\* argument is one number x with -100 < x < 0, /take_profit sets
\* trading.take_profit exactly when it is one number with 0 < x < 1000, and
\* every other input is refused with every policy value unchanged.
PolicyUpdateValidated ==
    [][ reply'.kind \in PolicyReplies =>
        \A args \in ArgLists(NumberTexts) :
          /\ _cmd_stop_loss(args) =>
                StopLossAsClaimed(args) /\ security_config' = security_config
          /\ _cmd_take_profit(args) =>
                TakeProfitAsClaimed(args) /\ security_config' = security_config
      ]_vars

\* C7 witness: "-0.5" was accepted as stop loss and a later take profit
\* text was refused.
PolicyUpdateWitness ==
    /\ trading_config.stop_loss = <<-5, 10>>
    /\ reply.kind = "invalid_take_profit"

\* C8: the rule groups of one evaluation were all evaluated under the same
\* policy values, whatever commands ran while it was suspended.
ConsistentPolicySnapshot ==
    \A i, j \in DOMAIN policy_seen : policy_seen[i] = policy_seen[j]

\* C8 witness: an evaluation ran its three rule groups after a command had
\* changed the policy while it was suspended at a fetch.
SnapshotWitness ==
    /\ eval_pc = "done"
    /\ Len(policy_seen) = 3
    /\ policy_seen[1] # policy_at_call

\* C9: an error raised by a cycle of monitor_markets is logged, and the
\* loop starts a next cycle again and again.
MonitorNeverStops ==
    /\ [](mon_pc = "sleep_after_error" => mon_logged)
    /\ []<>(mon_pc = "try")

\* C9 witness: a cycle raised and the except branch is sleeping.
MonitorWitness == mon_pc = "sleep_after_error" /\ mon_logged

====
